---- MODULE Spec2Model ----
(***************************************************************************)
(* Model of the transport layer helper/visa.py: the three instrument       *)
(* variants (GPIB, Ethernet, serial), the GPIB timeout table and the       *)
(* factory instrument().  Byte strings are sequences of one-character      *)
(* strings; times are integers in microseconds.                            *)
(***************************************************************************)
EXTENDS Integers, Sequences, FiniteSets, TLC

VARIABLES
    pc,          \* position of the caller: "start", "idle", "raised", "ask_read", "loop"
    handle,      \* the handle the factory returned: [kind, res]
    opened,      \* transport resources opened and not closed
    call,        \* the caller's current (or last) call: [op, arg]
    trace,       \* handle methods run by the call: <<[m, arg, val]>>
    calls,       \* transport calls issued by the call: <<[f, data]>>
    ret,         \* value the call returned: <<>> (nothing) or <<value>>
    error,       \* exception the call raised: [type, why]
    message,     \* SerialInstrument.read's accumulator
    emptyReads,  \* port reads of the running serial read() that timed out
    pending0,    \* unread device bytes when the call started
    rx,          \* bytes the device has sent that no read has consumed
    stub,        \* behaviour of the device: "echo", "any" or "long"
    released,    \* times the library's close was called for the handle
    fault,       \* library function that raised in the call ("" if none)
    timeout,     \* argument of get_gpib_timeout (microseconds)
    code,        \* result of get_gpib_timeout ("" before the call)
    threads,     \* frame of each thread sharing the handle:
                 \* [pc, query, message, ret, error, asks]
    wire,        \* transport calls of the threads, in order: <<[t, f, data]>>
    dcall,       \* the driver method called: [obj, method, arg]
    dpc,         \* position of the driver call: "idle" or "run"
    todo,        \* handle operations the driver call has still to issue
    bus,         \* handle operations the driver call has issued: <<[m, cmd, val]>>
    derror,      \* exception the driver call raised ("" if none)
    lcr_high_power_mode,  \* LCR.__high_power_mode
    hpow,        \* high power mode of the LCR meter: "0" or "1"
    lock,        \* EurothermMini8.lock: 0 (free) or the thread holding it
    m8,          \* frame of each thread calling the Mini8 and its Loops:
                 \* [pc, method, loop, failed, raised, gap, data, tspr, value]
    modbus,      \* the register transaction started last: [t, fn, reg, n]
    now,         \* time.time() (microseconds since the instrument was built)
    loops,       \* EurothermMini8.loops: of each Loop its last_time and the
                 \* cached pv, tsp, ao, wsp, tspr (in tenths)
    card_handle, \* RelaisCard.__handle
    link,        \* what happened to the card last: "never" (connected),
                 \* "connected", "failed" (connect) or "disconnected"
    hid,         \* handles the USB library has open
    usb,         \* library calls of the card method called last:
                 \* <<[f, handle, ret]>>
    rcall        \* the card method called last: [method, arg, ret, error]

vars == <<pc, handle, opened, call, trace, calls, ret, error, message,
          emptyReads, pending0, rx, stub, released, fault, timeout, code,
          threads, wire, dcall, dpc, todo, bus, derror, lcr_high_power_mode,
          hpow, lock, m8, modbus, now, loops, card_handle, link, hid, usb,
          rcall>>

ioVars == <<pc, handle, opened, call, trace, calls, ret, error, message,
            emptyReads, pending0, rx, stub, released, fault>>

\* ioVars without the bytes in flight
callerVars == <<pc, handle, opened, call, trace, calls, ret, error, message,
                emptyReads, pending0, stub, released, fault>>

tmoVars == <<timeout, code>>

threadVars == <<threads, wire>>

driverVars == <<dcall, dpc, todo, bus, derror, lcr_high_power_mode, hpow>>

mini8Vars == <<lock, m8, modbus, now, loops>>

relaisVars == <<card_handle, link, hid, usb, rcall>>

\* the variables a single caller of the transport layer does not touch
offVars == <<tmoVars, threadVars, driverVars, mini8Vars, relaisVars>>

\* the variables the threads, get_gpib_timeout, the drivers and the Mini8 do
\* not touch
threadOff == <<callerVars, tmoVars, driverVars, mini8Vars, relaisVars>>

tmoOff == <<ioVars, threadVars, driverVars, mini8Vars, relaisVars>>

driverOff == <<ioVars, tmoVars, threadVars, mini8Vars, relaisVars>>

mini8Off == <<ioVars, tmoVars, threadVars, driverVars, relaisVars>>

relaisOff == <<ioVars, tmoVars, threadVars, driverVars, mini8Vars>>

(***************************************************************************)
(* Bounds of the model                                                     *)
(***************************************************************************)
MaxLen == 2          \* longest command passed to write/ask
MaxReply == 1        \* longest reply of the free-running device
MaxPending == 0      \* most unread bytes at which a command is still sent
MaxEmptyReads == 2   \* timed-out port reads followed within one read()
MaxCloses == 2       \* close() calls followed on one handle
MaxAsks == 1         \* ask() calls followed in each thread
MaxTicks == 6        \* steps of the clock of the Mini8

(***************************************************************************)
(* Byte strings                                                            *)
(***************************************************************************)
CR == "\r"
LF == "\n"

Alphabet == {"A", CR, LF}

\* string.whitespace of Python 2 (the vertical tab has no TLA+ escape)
Whitespace == {" ", "\t", LF, CR, "\f"}

Strings(n) == UNION {[1..k -> Alphabet] : k \in 0..n}

Min(a, b) == IF a <= b THEN a ELSE b

Max(a, b) == IF a >= b THEN a ELSE b

\* s[-n:]
LastN(s, n) == SubSeq(s, Max(1, Len(s) - n + 1), Len(s))

\* a receive that returns everything pending, whatever the size asked for
FirstNUnlimited(s, n) == s

\* s[:n]
FirstN(s, n) == SubSeq(s, 1, Min(n, Len(s)))

\* s[n:]
DropN(s, n) == SubSeq(s, n + 1, Len(s))

\* a read() that returns the reply as received
RstripNothing(s) == s

RECURSIVE Rstrip(_)
\* s.rstrip(): s without its trailing whitespace
Rstrip(s) ==
    IF s # <<>> /\ s[Len(s)] \in Whitespace
    THEN Rstrip(SubSeq(s, 1, Len(s) - 1))
    ELSE s

RECURSIVE Lstrip(_)
Lstrip(s) ==
    IF s # <<>> /\ s[1] \in Whitespace THEN Lstrip(Tail(s)) ELSE s

\* index of the leftmost occurrence of sep in s at or after i, 0 if none
RECURSIVE Find(_, _, _)
Find(s, sep, i) ==
    IF i + Len(sep) - 1 > Len(s) THEN 0
    ELSE IF SubSeq(s, i, i + Len(sep) - 1) = sep THEN i
    ELSE Find(s, sep, i + 1)

RECURSIVE Split(_, _)
\* s.split(sep): the pieces between the non-overlapping occurrences of sep
Split(s, sep) ==
    LET i == Find(s, sep, 1) IN
    IF i = 0 THEN <<s>>
    ELSE <<SubSeq(s, 1, i - 1)>> \o Split(DropN(s, i + Len(sep) - 1), sep)

Digits == {"0", "1", "2", "3", "4", "5", "6", "7", "8", "9"}

DigitVal(c) ==
    CASE c = "0" -> 0 [] c = "1" -> 1 [] c = "2" -> 2 [] c = "3" -> 3
      [] c = "4" -> 4 [] c = "5" -> 5 [] c = "6" -> 6 [] c = "7" -> 7
      [] c = "8" -> 8 [] c = "9" -> 9

\* the digits of an integer literal: surrounding whitespace and one sign removed
IntBody(s) ==
    LET t == Rstrip(Lstrip(s)) IN
    IF t # <<>> /\ t[1] \in {"+", "-"} THEN Tail(t) ELSE t

\* int(s) does not raise ValueError
IsInt(s) ==
    /\ IntBody(s) # <<>>
    /\ \A i \in 1..Len(IntBody(s)) : IntBody(s)[i] \in Digits

RECURSIVE DigitsVal(_)
DigitsVal(d) ==
    IF d = <<>> THEN 0
    ELSE 10 * DigitsVal(SubSeq(d, 1, Len(d) - 1)) + DigitVal(d[Len(d)])

\* int(s)
PyInt(s) ==
    LET t == Rstrip(Lstrip(s)) IN
    IF t[1] = "-" THEN 0 - DigitsVal(IntBody(s)) ELSE DigitsVal(IntBody(s))

(***************************************************************************)
(* get_gpib_timeout                                                        *)
(***************************************************************************)
\* gpib_timeout_list, thresholds in microseconds
gpib_timeout_list ==
    << <<0, "TNONE">>, <<10, "T10us">>, <<30, "T30us">>, <<100, "T100us">>,
       <<300, "T300us">>, <<1000, "T1ms">>, <<3000, "T3ms">>,
       <<10000, "T10ms">>, <<30000, "T30ms">>, <<100000, "T100ms">>,
       <<300000, "T300ms">>, <<1000000, "T1s">>, <<3000000, "T3s">>,
       <<10000000, "T10s">>, <<30000000, "T30s">>, <<100000000, "T100s">>,
       <<300000000, "T300s">>, <<1000000000, "T1000s">> >>

\* the scan with a strict comparison
TimeoutFitsStrict(t, val) == t < val

\* the test of the scan: timeout <= val
TimeoutFits(t, val) == t <= val

RECURSIVE ScanTimeouts(_, _)
\* the for loop over gpib_timeout_list from entry i on, and the fall-through
ScanTimeouts(t, i) ==
    IF i > Len(gpib_timeout_list) THEN "T1000s"
    ELSE IF TimeoutFits(t, gpib_timeout_list[i][1]) THEN gpib_timeout_list[i][2]
    ELSE ScanTimeouts(t, i + 1)

get_gpib_timeout(t) == ScanTimeouts(t, 1)

(***************************************************************************)
(* Exceptions, resources, handles                                          *)
(***************************************************************************)
NoError == [type |-> "none", why |-> ""]

\* raise RuntimeError(inst + " is not a legal instrument")
MalformedAddress == [type |-> "RuntimeError", why |-> "is not a legal instrument"]

\* raise ValueError("type not found " + inst)
TypeNotFound == [type |-> "ValueError", why |-> "type not found"]

\* int() of a string that is no integer literal
IntError == [type |-> "ValueError", why |-> "invalid literal for int()"]

\* addr, port = address.split(":") with other than two pieces
UnpackError == [type |-> "ValueError", why |-> "unpack"]

\* the exception of the library under a handle of the given kind
TransportError(kind) ==
    [type |-> CASE kind = "GPIB" -> "gpib.GpibError"
                [] kind = "ETHER" -> "socket.error"
                [] kind = "SERIAL" -> "serial.SerialException",
     why |-> "transport"]

NoRes ==
    [type |-> "none", name |-> <<>>, num |-> 0, timeout |-> 0, tcode |-> "",
     state |-> "none"]

NoHandle == [kind |-> "none", res |-> NoRes]

\* every variant keeps the term_chars of GenericInstrument
term_chars_inherited(kind) == <<LF>>

\* self.term_chars of each variant
term_chars(kind) == IF kind = "SERIAL" THEN <<CR>> ELSE <<LF>>

\* size passed to recv / gpib.read
RecvLimit == 512

\* timeout=10.0
DefaultTimeout == 10000000

(***************************************************************************)
(* The factory instrument(inst, timeout)                                   *)
(***************************************************************************)
S_GPIB == <<"G", "P", "I", "B">>
S_GPIB0 == <<"G", "P", "I", "B", "0">>
S_ETHER == <<"E", "T", "H", "E", "R">>
S_SERIAL == <<"S", "E", "R", "I", "A", "L">>

\* the factory splitting the address at every colon
SplitInstAtColon(inst) == Split(inst, <<":">>)

\* inst.split("::")
SplitInst(inst) == Split(inst, <<":", ":">>)

\* the Ethernet branch splitting host and port at "::"
SplitAddressAtDouble(address) == Split(address, <<":", ":">>)

\* address.split(":")
SplitAddress(address) == Split(address, <<":">>)

UpperChar(c) ==
    CASE c = "g" -> "G" [] c = "p" -> "P" [] c = "i" -> "I" [] c = "b" -> "B"
      [] OTHER -> c

\* a type token compared without regard to case
TypeIsAnyCase(inst_type, name) ==
    [i \in 1..Len(inst_type) |-> UpperChar(inst_type[i])] = name

\* inst_type == "<name>"
TypeIs(inst_type, name) == inst_type = name

\* the factory raises err, leaving the resources res open
Raised(err, res) ==
    [handle |-> NoHandle, opened |-> res, error |-> err, lib |-> ""]

\* the library function lib raises inside the factory, which has no try
\* around it: the exception of the library leaves instrument()
RaisedBy(lib, kind, res) ==
    [Raised(TransportError(kind), res) EXCEPT !.lib = lib]

\* the factory returns a handle of the given kind on resource r
Returned(kind, r) ==
    [handle |-> [kind |-> kind, res |-> r], opened |-> {r}, error |-> NoError,
     lib |-> ""]

\* the GPIB branch; openOk, cfgOk: gpib.dev / gpib.timeout do not raise
OpenGpib(address, tmo, openOk, cfgOk) ==
    LET device == [type |-> "gpib", name |-> <<>>,
                   num |-> IF IsInt(address) THEN PyInt(address) ELSE 0,
                   timeout |-> 0, tcode |-> "", state |-> "open"]
    IN  IF ~IsInt(address) THEN Raised(IntError, {})
        ELSE IF ~openOk THEN RaisedBy("gpib.dev", "GPIB", {})
        ELSE IF ~cfgOk THEN RaisedBy("gpib.timeout", "GPIB", {device})
        ELSE Returned("GPIB", [device EXCEPT !.tcode = get_gpib_timeout(tmo)])

\* the ETHER branch; openOk: sock.connect does not raise
OpenEther(address, tmo, openOk) ==
    LET parts == SplitAddress(address)
        sock == [type |-> "socket", name |-> <<>>, num |-> 0,
                 timeout |-> tmo, tcode |-> "", state |-> "open"]
    IN  IF Len(parts) # 2 THEN Raised(UnpackError, {})
        ELSE IF ~IsInt(parts[2]) THEN Raised(IntError, {sock})
        ELSE IF ~openOk THEN RaisedBy("connect", "ETHER", {sock})
        ELSE Returned("ETHER", [sock EXCEPT !.name = parts[1],
                                            !.num = PyInt(parts[2]),
                                            !.state = "connected"])

\* the SERIAL branch; openOk: serial.Serial does not raise
OpenSerial(address, tmo, openOk) ==
    LET ser == [type |-> "serial", name |-> address, num |-> 0,
                timeout |-> tmo, tcode |-> "", state |-> "open"]
    IN  IF ~openOk THEN RaisedBy("serial.Serial", "SERIAL", {})
        ELSE Returned("SERIAL", ser)

instrument(inst, tmo, openOk, cfgOk) ==
    LET toks == SplitInst(inst) IN
    IF Len(toks) # 2 THEN Raised(MalformedAddress, {})
    ELSE LET inst_type == toks[1]
             address == toks[2]
         IN  IF TypeIs(inst_type, S_GPIB) \/ TypeIs(inst_type, S_GPIB0)
             THEN OpenGpib(address, tmo, openOk, cfgOk)
             ELSE IF TypeIs(inst_type, S_ETHER)
             THEN OpenEther(address, tmo, openOk)
             ELSE IF TypeIs(inst_type, S_SERIAL)
             THEN OpenSerial(address, tmo, openOk)
             ELSE Raised(TypeNotFound, {})

\* the address strings the factory is called with
TypeTokens ==
    {S_GPIB, S_GPIB0, S_ETHER, S_SERIAL, <<"g", "p", "i", "b">>,
     <<"E", "T", "H">>, <<>>}

Hosts == {<<"h">>}

Ports == {<<"2", "4">>}

\* what follows the type token: no separator, ":" for "::", empty or
\* non-numeric addresses, a well-formed address
CommonTails ==
    {<<>>, <<"2", "4">>, <<":", "2", "4">>, <<":", ":", "2", "4">>,
     <<":", ":", "h">>}

\* host and port, delimited by ":" or by "::", after "::" or after ":"
EtherTails ==
    {s \o h \o d \o p :
        s \in {<<":", ":">>, <<":">>}, h \in Hosts,
        d \in {<<":">>, <<":", ":">>}, p \in Ports \cup {<<"p">>}}

Addresses ==
    {t \o a : t \in TypeTokens, a \in CommonTails}
    \cup {t \o a : t \in {S_ETHER, <<"E", "T", "H">>}, a \in EtherTails}

Timeouts == {DefaultTimeout}

Instrument(inst, tmo, openOk, cfgOk) ==
    /\ pc = "start"
    /\ LET r == instrument(inst, tmo, openOk, cfgOk) IN
        /\ handle' = r.handle
        /\ opened' = r.opened
        /\ error' = r.error
        /\ fault' = r.lib
        /\ pc' = IF r.error = NoError THEN "idle" ELSE "raised"
    /\ call' = [op |-> "instrument", arg |-> inst]
    /\ trace' = <<>>
    /\ calls' = <<>>
    /\ ret' = <<>>
    /\ UNCHANGED <<message, emptyReads, pending0, rx, stub, released, offVars>>

(***************************************************************************)
(* The device behind the transport                                         *)
(***************************************************************************)
\* the echoing stub: the bytes written minus the termination sequence,
\* terminated as the variant expects
EchoReply(payload, kind) ==
    SubSeq(payload, 1, Len(payload) - Len(term_chars(kind))) \o term_chars(kind)

\* a reply that does not fit into one receive: RecvLimit bytes "A", then "B"
\* and the line feed
LongReply == [i \in 1..RecvLimit |-> "A"] \o <<"B", LF>>

\* what the device may send in answer to a payload: the echo, or any short
\* reply, or ("long") any short reply and, on the packet transports, the
\* long one
Replies(payload, kind) ==
    IF stub = "echo" THEN {EchoReply(payload, kind)}
    ELSE IF stub = "long" /\ kind # "SERIAL"
    THEN Strings(MaxReply) \cup {LongReply}
    ELSE Strings(MaxReply)

(***************************************************************************)
(* write, read, ask                                                        *)
(***************************************************************************)
Commands == Strings(MaxLen)

\* the library function each variant sends with
SendFn(kind) ==
    CASE kind = "GPIB" -> "gpib.write"
      [] kind = "ETHER" -> "sendall"
      [] kind = "SERIAL" -> "write"

\* the library function each variant receives with
RecvFn(kind) ==
    CASE kind = "GPIB" -> "gpib.read"
      [] kind = "ETHER" -> "recv"
      [] kind = "SERIAL" -> "read"

\* query + self.term_chars
Payload(query, kind) == query \o term_chars(kind)

\* a loop that stops at the first byte received
SerialReadUntilByte(msg, term) == msg = <<>>

\* the condition of the while loop of SerialInstrument.read
SerialReadMore(msg, term) == LastN(msg, Len(term)) # term

\* ask() without its return statement
AskReturnsNothing(value) == <<>>

\* the value ask() returns, given what its read() returned
AskReturn(value) == value

\* the value the call returns when its read() returned value
CallReturn(op, value) == IF op = "ask" THEN AskReturn(<<value>>) ELSE <<value>>

\* an ask() that goes on to its read() although its write() raised
AfterSendSwallowing(ok, next) == next

\* where the caller stands after the send: the exception of a failed send
\* leaves write() and ask(), which have no try around it
AfterSend(ok, next) == IF ok THEN next ELSE "idle"

\* the descriptor or object the handle holds reaches an open resource: the
\* handle is not closed, or it is a GPIB handle, which holds the number of
\* its descriptor, and the library has handed that number out again
Usable ==
    handle.res.state # "closed" \/ (handle.kind = "GPIB" /\ opened # {})

\* <variant>.write(query): one send; ok: the transport does not raise
Write(op, query, ok, reply, next) ==
    /\ call' = [op |-> op, arg |-> query]
    /\ trace' = <<[m |-> "write", arg |-> query, val |-> <<>>]>>
    /\ calls' = <<[f |-> SendFn(handle.kind), data |-> Payload(query, handle.kind)]>>
    /\ rx' = IF ok THEN rx \o reply ELSE rx
    /\ error' = IF ok THEN NoError ELSE TransportError(handle.kind)
    /\ fault' = IF ok THEN "" ELSE SendFn(handle.kind)
    /\ pc' = AfterSend(ok, next)
    /\ ret' = <<>>
    /\ pending0' = Len(rx)
    /\ UNCHANGED <<handle, opened, message, emptyReads, stub, released, offVars>>

\* the commands the caller sends to a device of the given kind: the reply of
\* a device that answers on its own does not depend on the command, so it is
\* driven with the commands below the longest
Driven(query) == stub = "echo" \/ Len(query) < MaxLen

\* the caller calls write(query)
CallWrite(query) ==
    /\ pc = "idle"
    /\ Driven(query)
    /\ Len(rx) <= MaxPending
    /\ \/ /\ Usable
          /\ \E reply \in Replies(Payload(query, handle.kind), handle.kind) :
                Write("write", query, TRUE, reply, "idle")
       \/ Write("write", query, FALSE, <<>>, "idle")

\* the caller calls ask(query): self.write(query)
CallAsk(query) ==
    /\ pc = "idle"
    /\ Driven(query)
    /\ Len(rx) <= MaxPending
    /\ \/ /\ Usable
          /\ \E reply \in Replies(Payload(query, handle.kind), handle.kind) :
                Write("ask", query, TRUE, reply, "ask_read")
       \/ Write("ask", query, FALSE, <<>>, "ask_read")

\* GpibInstrument.read / EthernetInstrument.read: one receive of up to
\* RecvLimit bytes, which raises when the timeout passes with nothing received.
\* before, sent: the trace and the transport calls of the call so far
PacketRead(op, before, sent) ==
    LET data == FirstN(rx, RecvLimit) IN
    /\ calls' = Append(sent, [f |-> RecvFn(handle.kind), data |-> data])
    /\ rx' = DropN(rx, RecvLimit)
    /\ IF data = <<>>
       THEN /\ error' = TransportError(handle.kind)
            /\ fault' = RecvFn(handle.kind)
            /\ ret' = <<>>
            /\ trace' = Append(before, [m |-> "read", arg |-> <<>>, val |-> <<>>])
       ELSE /\ error' = NoError
            /\ fault' = ""
            /\ ret' = CallReturn(op, Rstrip(data))
            /\ trace' = Append(before, [m |-> "read", arg |-> <<>>,
                                        val |-> <<Rstrip(data)>>])
    /\ pc' = "idle"
    /\ UNCHANGED <<message, emptyReads>>

\* SerialInstrument.read up to its loop: message = ""
SerialReadBegin(before, sent) ==
    /\ message' = <<>>
    /\ emptyReads' = 0
    /\ trace' = Append(before, [m |-> "read", arg |-> <<>>, val |-> <<>>])
    /\ calls' = sent
    /\ pc' = "loop"
    /\ error' = NoError
    /\ fault' = ""
    /\ ret' = <<>>
    /\ UNCHANGED rx

\* <variant>.read() starts
BeginRead(op, before, sent) ==
    /\ IF handle.kind = "SERIAL"
       THEN SerialReadBegin(before, sent)
       ELSE PacketRead(op, before, sent)
    /\ UNCHANGED <<handle, opened, stub, released, offVars>>

\* the caller calls read()
CallRead ==
    /\ pc = "idle"
    /\ call' = [op |-> "read", arg |-> <<>>]
    /\ pending0' = Len(rx)
    /\ BeginRead("read", <<>>, <<>>)

\* ask(query): return self.read()
AskRead ==
    /\ pc = "ask_read"
    /\ UNCHANGED <<call, pending0>>
    /\ BeginRead("ask", trace, calls)

\* one turn of the loop of SerialInstrument.read:
\* message = message + self.device.read().  The port returns the next byte,
\* or the empty string when its timeout passes with nothing received.
SerialReadStep ==
    /\ pc = "loop"
    /\ SerialReadMore(message, term_chars(handle.kind))
    /\ Usable
    /\ IF rx # <<>>
       THEN /\ message' = message \o <<Head(rx)>>
            /\ calls' = Append(calls, [f |-> RecvFn(handle.kind), data |-> <<Head(rx)>>])
            /\ rx' = Tail(rx)
            /\ UNCHANGED emptyReads
       ELSE /\ emptyReads < MaxEmptyReads
            /\ message' = message \o <<>>
            /\ calls' = Append(calls, [f |-> RecvFn(handle.kind), data |-> <<>>])
            /\ emptyReads' = emptyReads + 1
            /\ UNCHANGED rx
    /\ UNCHANGED <<pc, handle, opened, call, trace, ret, error, pending0, stub,
                   released, fault, offVars>>

\* self.device.read() raises in the loop, as it does on a closed port: the
\* exception leaves read()
SerialReadRaise ==
    /\ pc = "loop"
    /\ SerialReadMore(message, term_chars(handle.kind))
    /\ calls' = Append(calls, [f |-> RecvFn(handle.kind), data |-> <<>>])
    /\ error' = TransportError(handle.kind)
    /\ fault' = RecvFn(handle.kind)
    /\ message' = <<>>
    /\ emptyReads' = 0
    /\ pc' = "idle"
    /\ UNCHANGED <<handle, opened, call, trace, ret, pending0, rx, stub,
                   released, offVars>>

\* the loop of SerialInstrument.read ends: return message.rstrip()
SerialReadReturn ==
    /\ pc = "loop"
    /\ ~SerialReadMore(message, term_chars(handle.kind))
    /\ ret' = CallReturn(call.op, Rstrip(message))
    /\ trace' = [trace EXCEPT ![Len(trace)].val = <<Rstrip(message)>>]
    /\ message' = <<>>
    /\ emptyReads' = 0
    /\ pc' = "idle"
    /\ UNCHANGED <<handle, opened, call, calls, error, pending0, rx, stub,
                   released, fault, offVars>>

\* the library function each variant releases its resource with
CloseFn(kind) ==
    CASE kind = "GPIB" -> "gpib.close"
      [] kind = "ETHER" -> "socket.close"
      [] kind = "SERIAL" -> "serial.close"

\* the resources open after the library's close: closing a socket or a port
\* object releases that object's resource, if it still has one; gpib.close
\* releases whatever the descriptor number denotes at that moment
AfterClose ==
    IF handle.kind = "GPIB" THEN {} ELSE opened \ {handle.res}

\* the library's close raises: gpib.close on a descriptor number that is not
\* in use; the close of a closed socket or port object does nothing
CloseRaises == handle.kind = "GPIB" /\ opened = {}

\* the caller calls close(): the variant calls the library's close, whatever
\* state the handle is in
Close ==
    /\ pc = "idle"
    /\ released < MaxCloses
    /\ call' = [op |-> "close", arg |-> <<>>]
    /\ trace' = <<[m |-> "close", arg |-> <<>>, val |-> <<>>]>>
    /\ calls' = <<[f |-> CloseFn(handle.kind), data |-> <<>>]>>
    /\ released' = released + 1
    /\ opened' = AfterClose
    /\ handle' = [handle EXCEPT !.res.state = "closed"]
    /\ error' = IF CloseRaises THEN TransportError(handle.kind) ELSE NoError
    /\ fault' = IF CloseRaises THEN CloseFn(handle.kind) ELSE ""
    /\ rx' = <<>>
    /\ ret' = <<>>
    /\ pending0' = Len(rx)
    /\ UNCHANGED <<pc, message, emptyReads, stub, offVars>>

\* while the caller holds its closed GPIB handle, instrument() is called for
\* the device at the next address: gpib.dev hands out the lowest free
\* descriptor number, the one the closed handle still holds
InstrumentAgain ==
    /\ pc = "idle"
    /\ handle.kind = "GPIB"
    /\ handle.res.state = "closed"
    /\ opened = {}
    /\ opened' = {[handle.res EXCEPT !.num = handle.res.num + 1,
                                     !.state = "open"]}
    /\ UNCHANGED <<pc, handle, call, trace, calls, ret, error, message,
                   emptyReads, pending0, rx, stub, released, fault, offVars>>

(***************************************************************************)
(* Threads sharing one handle                                              *)
(***************************************************************************)
Threads == {1, 2}

\* the commands the threads ask
ThreadCommands == {<<"A">>, <<"B">>}

\* a thread that is in no call
NoFrame ==
    [pc |-> "idle", query |-> <<>>, message |-> <<>>, ret |-> <<>>,
     error |-> NoError, asks |-> 0]

\* no thread has called the handle
NoThreads ==
    /\ threads = [t \in Threads |-> NoFrame]
    /\ wire = <<>>

\* an ask() that waits until no other thread is inside ask()
AskEntersLocked(t) ==
    threads[t].pc = "idle" /\ \A u \in Threads : threads[u].pc = "idle"

\* thread t may enter ask(): the method takes no lock, so whatever the other
\* threads are doing
AskEnters(t) == threads[t].pc = "idle"

\* thread t calls ask(query): self.write(query), answered by the echoing stub
ThreadAskWrite(t, query) ==
    /\ pc = "threads"
    /\ AskEnters(t)
    /\ threads[t].asks < MaxAsks
    /\ wire' = Append(wire, [t |-> t, f |-> SendFn(handle.kind),
                             data |-> Payload(query, handle.kind)])
    /\ rx' = rx \o EchoReply(Payload(query, handle.kind), handle.kind)
    /\ threads' = [threads EXCEPT ![t] =
                     [pc |-> "ask_read", query |-> query, message |-> <<>>,
                      ret |-> <<>>, error |-> NoError, asks |-> @.asks + 1]]
    /\ UNCHANGED threadOff

\* thread t in ask(): return self.read().  GPIB and Ethernet: one receive,
\* which raises when nothing is pending; serial: message = ""
ThreadAskRead(t) ==
    /\ pc = "threads"
    /\ threads[t].pc = "ask_read"
    /\ IF handle.kind = "SERIAL"
       THEN /\ threads' = [threads EXCEPT ![t].pc = "loop", ![t].message = <<>>]
            /\ UNCHANGED <<wire, rx>>
       ELSE LET data == FirstN(rx, RecvLimit) IN
            /\ wire' = Append(wire, [t |-> t, f |-> RecvFn(handle.kind),
                                     data |-> data])
            /\ rx' = DropN(rx, RecvLimit)
            /\ threads' = [threads EXCEPT
                  ![t].pc = "idle",
                  ![t].ret = IF data = <<>> THEN <<>>
                             ELSE AskReturn(<<Rstrip(data)>>),
                  ![t].error = IF data = <<>> THEN TransportError(handle.kind)
                               ELSE NoError]
    /\ UNCHANGED threadOff

\* one turn of the loop of SerialInstrument.read in thread t that receives a
\* byte (a port read that times out leaves message as it was)
ThreadSerialStep(t) ==
    /\ pc = "threads"
    /\ threads[t].pc = "loop"
    /\ SerialReadMore(threads[t].message, term_chars(handle.kind))
    /\ rx # <<>>
    /\ wire' = Append(wire, [t |-> t, f |-> RecvFn(handle.kind),
                             data |-> <<Head(rx)>>])
    /\ rx' = Tail(rx)
    /\ threads' = [threads EXCEPT ![t].message = @ \o <<Head(rx)>>]
    /\ UNCHANGED threadOff

\* the loop of thread t ends: return message.rstrip()
ThreadSerialReturn(t) ==
    /\ pc = "threads"
    /\ threads[t].pc = "loop"
    /\ ~SerialReadMore(threads[t].message, term_chars(handle.kind))
    /\ threads' = [threads EXCEPT
          ![t].pc = "idle",
          ![t].ret = AskReturn(<<Rstrip(threads[t].message)>>),
          ![t].message = <<>>]
    /\ UNCHANGED <<threadOff, wire, rx>>

(***************************************************************************)
(* Device drivers on a handle: ITC503, HP4284A, SR830m                     *)
(***************************************************************************)
\* a handle operation issued by a driver: clear(), ask(cmd) or write(cmd);
\* val is the number that is part of the command (0 if none), voltages in mV
Op(m, cmd, val) == [m |-> m, cmd |-> cmd, val |-> val]

NoDriverCall == [obj |-> "none", method |-> "none", arg |-> 0]

\* no driver method has been called
NoDriver ==
    /\ dcall = NoDriverCall
    /\ dpc = "idle"
    /\ todo = <<>>
    /\ bus = <<>>
    /\ derror = ""
    /\ lcr_high_power_mode = FALSE
    /\ hpow = "0"

\* an ITC.clear that leaves the bus alone
ITC_clear_skipped == <<>>

\* ITC.clear: sleep, self.itc.clear(), sleep
ITC_clear == <<Op("clear", "", 0)>>

\* LCR.clear: sleep, self.__lcr.clear(), sleep
LCR_clear == <<Op("clear", "", 0)>>

\* ITC.__get_temperature(identifier), reached through T1, T2, T3
ITC_get_temperature(identifier) ==
    ITC_clear \o (IF identifier \notin {1, 2, 3} THEN <<>>
                  ELSE <<Op("ask", "@0R", identifier)>>)

\* the handle operations of the methods of ITC, in program order
ITC_program(method) ==
    CASE method = "T1" -> ITC_get_temperature(1)
      [] method = "T2" -> ITC_get_temperature(2)
      [] method = "T3" -> ITC_get_temperature(3)
      [] method = "temperature_set_point" ->
            ITC_clear \o <<Op("ask", "@0R0", 0)>>
      [] method = "pid_parameters" ->
            ITC_clear \o <<Op("ask", "@0R8", 0), Op("ask", "@0R9", 0),
                           Op("ask", "@0R10", 0)>>
      [] method = "heater_output" ->
            ITC_clear \o <<Op("ask", "@0R5", 0), Op("ask", "@0R6", 0)>>
      [] method = "gas_flow" ->
            ITC_clear \o <<Op("ask", "@0R7", 0)>>
      \* self.heater_output() runs the getter of the property and then
      \* calls the tuple it returned
      [] method = "device_status" ->
            ITC_clear \o <<Op("ask", "@0R5", 0), Op("ask", "@0R6", 0)>>
      [] method = "start_temperature_sweep" ->
            ITC_clear \o <<Op("write", "@0C3", 0), Op("write", "@0S0", 0),
                           Op("write", "@0S1", 0), Op("write", "@0C0", 0)>>
      [] method = "stop_temperature_sweep" ->
            ITC_clear \o <<Op("write", "@0C3", 0), Op("write", "@0S0", 0),
                           Op("write", "@0C0", 0)>>

\* bool(s) of a string
PyBool(s) == s # ""

\* the voltage the setter of LCR.source_voltage sends (mV), given the value
\* of self.high_power_mode
source_voltage_checked(voltage, high_power) ==
    LET v == IF voltage < 5 THEN 5 ELSE voltage IN
    IF high_power THEN (IF v > 20000 THEN 20000 ELSE v)
    ELSE (IF v > 2000 THEN 2000 ELSE v)

\* the handle operations of the methods of LCR up to the first reply that
\* decides how the method goes on
LCR_program(method, arg) ==
    CASE method = "frequency" -> LCR_clear \o <<Op("ask", "FREQ?", 0)>>
      [] method = "source_voltage" -> LCR_clear \o <<Op("ask", "VOLT?", 0)>>
      [] method = "read_data" -> LCR_clear \o <<Op("ask", "*TRG", 0)>>
      [] method = "high_power_mode" ->
            LCR_clear \o <<Op("ask", "OUTP:HPOW?", 0)>>
      [] method = "high_power_mode=" ->
            LCR_clear \o <<Op("write", IF arg # 0 THEN "OUTP:HPOW ON"
                                       ELSE "OUTP:HPOW OFF", 0)>>
      \* if self.high_power_mode: the getter of the property
      [] method = "source_voltage=" ->
            LCR_clear \o <<Op("ask", "OUTP:HPOW?", 0)>>

\* the handle operations of the methods of SR830m (LIA_SR830m.py)
SR830m_program(method, arg) ==
    CASE method = "get_voltage" -> <<Op("ask", "SLVL?", 0)>>
      [] method = "get_value_X" -> <<Op("ask", "OUTP? 1", 0)>>
      \* signal_str is built for 0 and 1 and never handed to the handle
      [] method = "set_input_reference_mode" -> <<>>

program(obj, method, arg) ==
    CASE obj = "ITC" -> ITC_program(method)
      [] obj = "LCR" -> LCR_program(method, arg)
      [] obj = "SR830m" -> SR830m_program(method, arg)

\* the source voltages asked for (mV)
Voltages == {1, 5, 1000, 2000, 2001, 5000, 20000, 20001}

\* the driver calls made
DriverCalls ==
    {[obj |-> "ITC", method |-> m, arg |-> 0] :
        m \in {"T1", "T2", "T3", "temperature_set_point", "pid_parameters",
               "heater_output", "gas_flow", "device_status",
               "start_temperature_sweep", "stop_temperature_sweep"}}
    \cup {[obj |-> "LCR", method |-> m, arg |-> 0] :
        m \in {"frequency", "source_voltage", "read_data", "high_power_mode"}}
    \cup {[obj |-> "LCR", method |-> "high_power_mode=", arg |-> a] : a \in {0, 1}}
    \cup {[obj |-> "LCR", method |-> "source_voltage=", arg |-> v] : v \in Voltages}
    \cup {[obj |-> "SR830m", method |-> m, arg |-> 0] :
        m \in {"get_voltage", "get_value_X"}}
    \cup {[obj |-> "SR830m", method |-> "set_input_reference_mode", arg |-> a] :
        a \in {0, 1, 2}}

\* what the instrument answers to a query
DeviceReply(cmd) == IF cmd = "OUTP:HPOW?" THEN hpow ELSE "r"

\* the operations that follow the reply to a query: the setter of
\* LCR.source_voltage, once self.high_power_mode has returned, limits the
\* voltage and sends it
Continue(c, op, reply) ==
    IF c.obj = "LCR" /\ c.method = "source_voltage=" /\ op.cmd = "OUTP:HPOW?"
    THEN LCR_clear \o <<Op("write", "VOLT",
                           source_voltage_checked(c.arg, PyBool(reply)))>>
    ELSE <<>>

\* a method of a driver is called
DriverCall(c) ==
    /\ pc = "drivers"
    /\ dpc = "idle"
    /\ dcall' = c
    /\ dpc' = "run"
    /\ todo' = program(c.obj, c.method, c.arg)
    /\ bus' = <<>>
    /\ derror' = ""
    /\ UNCHANGED <<lcr_high_power_mode, hpow, driverOff>>

\* the driver call issues its next handle operation, which returns
DriverStep ==
    /\ pc = "drivers"
    /\ dpc = "run"
    /\ todo # <<>>
    /\ LET op == Head(todo)
           reply == DeviceReply(op.cmd)
       IN  /\ bus' = Append(bus, op)
           /\ todo' = Tail(todo) \o
                        (IF op.m = "ask" THEN Continue(dcall, op, reply) ELSE <<>>)
           \* self.__high_power_mode = bool(high_power_mode), and the
           \* assignments of the setter
           /\ lcr_high_power_mode' =
                 IF op.cmd = "OUTP:HPOW?" THEN PyBool(reply)
                 ELSE IF op.cmd = "OUTP:HPOW ON" THEN TRUE
                 ELSE IF op.cmd = "OUTP:HPOW OFF" THEN FALSE
                 ELSE lcr_high_power_mode
           /\ hpow' = IF op.cmd = "OUTP:HPOW ON" THEN "1"
                      ELSE IF op.cmd = "OUTP:HPOW OFF" THEN "0"
                      ELSE hpow
    /\ UNCHANGED <<dcall, dpc, derror, driverOff>>

\* the next handle operation raises: the exception leaves the driver method
DriverRaise ==
    /\ pc = "drivers"
    /\ dpc = "run"
    /\ todo # <<>>
    /\ bus' = Append(bus, Head(todo))
    /\ todo' = <<>>
    /\ dpc' = "idle"
    /\ derror' = "gpib.GpibError"
    /\ UNCHANGED <<dcall, lcr_high_power_mode, hpow, driverOff>>

\* the driver method ends; device_status ends in the TypeError of calling
\* the tuple self.heater_output
DriverReturn ==
    /\ pc = "drivers"
    /\ dpc = "run"
    /\ todo = <<>>
    /\ dpc' = "idle"
    /\ derror' = IF dcall.obj = "ITC" /\ dcall.method = "device_status"
                 THEN "TypeError" ELSE ""
    /\ UNCHANGED <<dcall, todo, bus, lcr_high_power_mode, hpow, driverOff>>

(***************************************************************************)
(* EurothermMini8 and its Loops, called by several threads                 *)
(***************************************************************************)
M8Threads == {1, 2}

\* the loops the threads use, of range(0, 8)
M8Loops == {0, 1}

\* Loop(self, i * 256, self.lock)
base_number(loop) == loop * 256

\* the operations: the getters of a Loop, which all run __get_all, its two
\* setters, and get_temperature of the instrument
M8Methods == {"get", "set_target_set_point", "set_set_point_rate",
              "get_temperature"}

\* the 0.5 of __allowed_to_get_new_data, in microseconds
Window == 500000

\* the step of the clock
Quantum == Window \div 2

\* the registers base+1 .. base+5 of a loop
Steady == <<215, 300, 7, 40, 290>>

\* the contents a register transaction can find: five registers of a loop,
\* at two moments, or the one register of a rate or of a temperature sensor
RegisterContents == {Steady, <<216, 300, 7, 41, 291>>, <<12>>}

\* the contents of a device whose registers do not change
SteadyContents == {Steady, <<12>>}

\* value / 10.0, with the numbers of the model in tenths
Tenth(value) == value

\* self.pv = data[0] / 10.0 ... self.tspr = tspr, with tspr the register
\* read with one decimal
Cached(data, tspr) ==
    [pv |-> Tenth(data[1]), tsp |-> Tenth(data[2]), ao |-> Tenth(data[4]),
     wsp |-> Tenth(data[5]), tspr |-> Tenth(tspr)]

\* self.tsp = 0 ... self.tspr = 0
ZeroCache == [pv |-> 0, tsp |-> 0, ao |-> 0, wsp |-> 0, tspr |-> 0]

\* a Loop after its construction, whose refresh set last_time and, unless
\* it failed, the cache
NewLoop(cache) == [last_time |-> 0, cache |-> cache]

\* a thread in no operation
M8Idle == [pc |-> "idle", method |-> "none", loop |-> 0, failed |-> FALSE,
           raised |-> FALSE, gap |-> 0, data |-> <<>>, tspr |-> 0,
           value |-> <<>>]

NoTransaction == [t |-> 0, fn |-> "none", reg |-> 0, n |-> 0]

\* the instrument after its construction: lock free, no thread inside, each
\* Loop refreshed from the steady device
NoMini8 ==
    /\ lock = 0
    /\ m8 = [t \in M8Threads |-> M8Idle]
    /\ modbus = NoTransaction
    /\ now = 0
    /\ loops = [l \in M8Loops |-> NewLoop(Cached(Steady, 12))]

\* an acquire that does not wait
LockFreeIgnored == TRUE

\* self.lock.acquire() returns only when the lock is free
LockFree == lock = 0

\* Loop.__allowed_to_get_new_data
allowed_to_get_new_data(loop) == now - loops[loop].last_time > Window

\* the register transaction a thread issues at a position
Transaction(t, f) ==
    CASE f.pc = "read1" ->
            [t |-> t, fn |-> "read_registers", reg |-> base_number(f.loop) + 1,
             n |-> 5]
      [] f.pc = "read2" ->
            [t |-> t, fn |-> "read_register", reg |-> base_number(f.loop) + 70,
             n |-> 1]
      [] f.pc = "write" ->
            [t |-> t, fn |-> "write_register",
             reg |-> base_number(f.loop) +
                       (IF f.method = "set_target_set_point" THEN 2 ELSE 70),
             n |-> 1]
      \* self.__temperature_registers[sensor_number], sensor 0
      [] f.pc = "read" ->
            [t |-> t, fn |-> "read_register", reg |-> 4228, n |-> 1]

\* thread t calls an operation; get_temperature raises at once for a
\* sensor number out of range (inRange false)
M8Call(t, method, loop, inRange) ==
    /\ pc = "mini8"
    /\ m8[t].pc = "idle"
    /\ m8' = [m8 EXCEPT ![t] =
                [M8Idle EXCEPT
                   !.pc = CASE method = "get" -> "check"
                            [] method = "get_temperature" ->
                                  IF inRange THEN "acquire" ELSE "idle"
                            [] OTHER -> "acquire",
                   !.method = method,
                   !.loop = loop,
                   !.failed = (method = "get_temperature" /\ ~inRange),
                   !.raised = (method = "get_temperature" /\ ~inRange)]]
    /\ UNCHANGED <<lock, modbus, now, loops, mini8Off>>

\* Loop.__get_all: if not self.__allowed_to_get_new_data(): return, and the
\* getter returns the cached value
M8Check(t, allowed) ==
    /\ pc = "mini8"
    /\ m8[t].pc = "check"
    /\ m8' = [m8 EXCEPT
                ![t].pc = IF allowed THEN "acquire" ELSE "idle",
                ![t].value = IF allowed THEN <<>>
                             ELSE <<loops[m8[t].loop].cache>>]
    /\ UNCHANGED <<lock, modbus, now, loops, mini8Off>>

\* self.lock.acquire(), and in __get_all self.last_time = time.time();
\* gap: the time since the refresh of the loop that started before this one
M8Acquire(t) ==
    /\ pc = "mini8"
    /\ m8[t].pc = "acquire"
    /\ LockFree
    /\ lock' = t
    /\ m8' = [m8 EXCEPT
                ![t].pc = CASE m8[t].method = "get" -> "read1"
                            [] m8[t].method = "get_temperature" -> "read"
                            [] OTHER -> "write",
                ![t].gap = IF m8[t].method = "get"
                           THEN now - loops[m8[t].loop].last_time ELSE 0]
    /\ loops' = IF m8[t].method = "get"
                THEN [loops EXCEPT ![m8[t].loop].last_time = now]
                ELSE loops
    /\ UNCHANGED <<modbus, now, mini8Off>>

\* Loop.set_target_set_point: writing test.dat raises before the register
\* is written
M8FileRaise(t) ==
    /\ pc = "mini8"
    /\ m8[t].pc = "write"
    /\ m8[t].method = "set_target_set_point"
    /\ m8' = [m8 EXCEPT ![t].pc = "finally", ![t].failed = TRUE]
    /\ UNCHANGED <<lock, modbus, now, loops, mini8Off>>

\* thread t enters read_registers / read_register / write_register
M8Begin(t) ==
    /\ pc = "mini8"
    /\ m8[t].pc \in {"read1", "read2", "write", "read"}
    /\ modbus' = Transaction(t, m8[t])
    /\ m8' = [m8 EXCEPT ![t].pc =
                CASE m8[t].pc = "read1" -> "in_read1"
                  [] m8[t].pc = "read2" -> "in_read2"
                  [] m8[t].pc = "write" -> "in_write"
                  [] m8[t].pc = "read" -> "in_read"]
    /\ UNCHANGED <<lock, now, loops, mini8Off>>

\* the register transaction of thread t returns the contents regs of its
\* registers (ok) or raises.  In __get_all an exception leads to the except
\* clause, in a setter to "return -1" and finally; get_temperature has no
\* try, so an exception leaves it with the lock held
M8End(t, ok, regs) ==
    /\ pc = "mini8"
    /\ m8[t].pc \in {"in_read1", "in_read2", "in_write", "in_read"}
    /\ Len(regs) = modbus.n
    /\ m8' = [m8 EXCEPT
          ![t].pc = CASE m8[t].pc = "in_read1" ->
                            IF ok THEN "read2" ELSE "except"
                      [] m8[t].pc = "in_read2" ->
                            IF ok THEN "finally" ELSE "except"
                      [] m8[t].pc = "in_read" ->
                            IF ok THEN "release" ELSE "idle"
                      [] OTHER -> "finally",
          ![t].failed = ~ok,
          ![t].raised = (~ok /\ m8[t].pc = "in_read"),
          ![t].data = IF ok /\ m8[t].pc \in {"in_read1", "in_read"}
                      THEN regs ELSE m8[t].data,
          ![t].tspr = IF ok /\ m8[t].pc = "in_read2"
                      THEN regs[1] ELSE m8[t].tspr]
    /\ UNCHANGED <<lock, modbus, now, loops, mini8Off>>

\* the except clause of __get_all: a line is appended to temperature.log
\* (ok), or opening or writing the file raises and that exception leaves
\* the getter after the finally clause
M8Log(t, ok) ==
    /\ pc = "mini8"
    /\ m8[t].pc = "except"
    /\ m8' = [m8 EXCEPT ![t].pc = "finally", ![t].raised = ~ok]
    /\ UNCHANGED <<lock, modbus, now, loops, mini8Off>>

\* what the operation of a frame returns once its lock is released: a
\* getter whose refresh failed the cached values, a setter 1 or -1,
\* get_temperature the register it read; nothing when it raises
M8Return(f) ==
    CASE f.raised -> <<>>
      [] f.method = "get" -> <<loops[f.loop].cache>>
      [] f.method = "get_temperature" -> <<f.data[1]>>
      [] OTHER -> <<IF f.failed THEN 0 - 1 ELSE 1>>

\* self.lock.release(), in the finally clause of a Loop method or at the
\* end of get_temperature, and the return or the exception that follows;
\* __get_all goes on to store what it read
M8Release(t) ==
    /\ pc = "mini8"
    /\ m8[t].pc \in {"finally", "release"}
    /\ lock' = 0
    /\ m8' = IF m8[t].method = "get" /\ ~m8[t].failed
             THEN [m8 EXCEPT ![t].pc = "store"]
             ELSE [m8 EXCEPT ![t].pc = "idle", ![t].value = M8Return(m8[t])]
    /\ UNCHANGED <<modbus, now, loops, mini8Off>>

\* __get_all after its try statement: self.pv = data[0] / 10.0 ...
\* self.tspr = tspr, and the getter returns the value stored
M8Store(t) ==
    /\ pc = "mini8"
    /\ m8[t].pc = "store"
    /\ loops' = [loops EXCEPT
                   ![m8[t].loop].cache = Cached(m8[t].data, m8[t].tspr)]
    /\ m8' = [m8 EXCEPT ![t].pc = "idle",
                        ![t].value = <<Cached(m8[t].data, m8[t].tspr)>>]
    /\ UNCHANGED <<lock, modbus, now, mini8Off>>

\* time passes
Tick ==
    /\ pc = "mini8"
    /\ now < MaxTicks * Quantum
    /\ now' = now + Quantum
    /\ UNCHANGED <<lock, m8, modbus, loops, mini8Off>>

(***************************************************************************)
(* RelaisCard: a relay card behind the USB library                         *)
(***************************************************************************)
\* the handles the library returns when it opens a card
Handles == {5, 6}

\* what the library returns when it cannot open a card or cannot write
LibError == 0 - 1

\* the modulus of the unsigned integers of the model.  c_uint has 32 bits;
\* the integers of the model checker end below 2^32, so the model wraps at
\* 16 bits, far above every handle
UIntModulus == 2^16

\* c_uint(value): the value as an unsigned integer
c_uint(value) == value % UIntModulus

\* RelaisCard.__init__: self.__handle = 0; no library call yet
NoRelais ==
    /\ card_handle = 0
    /\ link = "never"
    /\ hid = {}
    /\ usb = <<>>
    /\ rcall = [method |-> "none", arg |-> <<>>, ret |-> <<>>, error |-> ""]

\* a set_digital_byte that does not look at the handle
not_connected_never(h) == FALSE

\* if(self.__handle == 0)
not_connected(h) == h = 0

\* RelaisCard.connect on a card st = [handle, hid, usb], the library's open
\* returning h: self.__handle = 0, then self.__handle = dcihid_open(...)
connect(st, h) ==
    [handle |-> h,
     hid |-> IF h = LibError THEN st.hid ELSE st.hid \cup {h},
     usb |-> Append(st.usb, [f |-> "dcihid_open", handle |-> 0, ret |-> h])]

\* RelaisCard.disconnect: if self.__handle != 0, close c_uint(handle) and
\* set it to 0
disconnect(st) ==
    IF st.handle # 0
    THEN [handle |-> 0,
          hid |-> st.hid \ {c_uint(st.handle)},
          usb |-> Append(st.usb, [f |-> "dcihid_close",
                                  handle |-> c_uint(st.handle), ret |-> 0])]
    ELSE st

\* the card as a method finds it, with no library call made yet
Card == [handle |-> card_handle, hid |-> hid, usb |-> <<>>]

\* what the library's open can return: a handle it has not handed out, or
\* its error value
OpenResults == (Handles \ hid) \cup {LibError}

\* the caller calls connect(card_number)
Connect(h) ==
    /\ pc = "relais"
    /\ h \in OpenResults
    /\ LET st == connect(Card, h) IN
        /\ card_handle' = st.handle
        /\ hid' = st.hid
        /\ usb' = st.usb
    /\ link' = IF h = LibError THEN "failed" ELSE "connected"
    /\ rcall' = [method |-> "connect", arg |-> <<>>, ret |-> <<h # LibError>>,
                 error |-> ""]
    /\ UNCHANGED relaisOff

\* the caller calls disconnect()
Disconnect ==
    /\ pc = "relais"
    /\ LET st == disconnect(Card) IN
        /\ card_handle' = st.handle
        /\ hid' = st.hid
        /\ usb' = st.usb
    /\ link' = "disconnected"
    /\ rcall' = [method |-> "disconnect", arg |-> <<>>, ret |-> <<>>,
                 error |-> ""]
    /\ UNCHANGED relaisOff

\* the caller calls check_connection(card_number):
\* result = self.connect(card_number); self.disconnect(); return result
CheckConnection(h) ==
    /\ pc = "relais"
    /\ h \in OpenResults
    /\ LET st == disconnect(connect(Card, h)) IN
        /\ card_handle' = st.handle
        /\ hid' = st.hid
        /\ usb' = st.usb
    /\ link' = "disconnected"
    /\ rcall' = [method |-> "check_connection", arg |-> <<>>,
                 ret |-> <<h # LibError>>, error |-> ""]
    /\ UNCHANGED relaisOff

\* the caller calls set_digital_byte(channel, byte), the library's write
\* returning res
SetDigitalByte(channel, byte, res) ==
    /\ pc = "relais"
    /\ IF not_connected(card_handle)
       THEN /\ usb' = <<>>
            /\ rcall' = [method |-> "set_digital_byte",
                         arg |-> <<channel, byte>>, ret |-> <<>>,
                         error |-> "Device not connected"]
       ELSE /\ usb' = <<[f |-> "dcihid_write", handle |-> c_uint(card_handle),
                         ret |-> res]>>
            /\ rcall' = [method |-> "set_digital_byte",
                         arg |-> <<channel, byte>>, ret |-> <<>>,
                         error |-> IF res = LibError
                                   THEN "Error: sending byte unsuccessful!"
                                   ELSE ""]
    /\ UNCHANGED <<card_handle, link, hid, relaisOff>>

\* the caller calls get_digital_byte(channel), the library's read storing
\* value: the library is called with whatever the handle is
GetDigitalByte(channel, value) ==
    /\ pc = "relais"
    /\ usb' = <<[f |-> "dcihid_read", handle |-> c_uint(card_handle),
                 ret |-> 0]>>
    /\ rcall' = [method |-> "get_digital_byte", arg |-> <<channel>>,
                 ret |-> <<value>>, error |-> ""]
    /\ UNCHANGED <<card_handle, link, hid, relaisOff>>

(***************************************************************************)
(* Specification of the transport layer                                    *)
(***************************************************************************)
NoCall == [op |-> "none", arg |-> <<>>]

Init ==
    /\ pc = "start"
    /\ handle = NoHandle
    /\ opened = {}
    /\ call = NoCall
    /\ trace = <<>>
    /\ calls = <<>>
    /\ ret = <<>>
    /\ error = NoError
    /\ message = <<>>
    /\ emptyReads = 0
    /\ pending0 = 0
    /\ rx = <<>>
    /\ stub \in {"echo", "any"}
    /\ released = 0
    /\ fault = ""
    /\ timeout = 0
    /\ code = ""
    /\ NoThreads
    /\ NoDriver
    /\ NoMini8
    /\ NoRelais

Next ==
    \/ \E inst \in Addresses, tmo \in Timeouts, openOk \in BOOLEAN, cfgOk \in BOOLEAN :
          Instrument(inst, tmo, openOk, cfgOk)
    \/ \E query \in Commands : CallWrite(query)
    \/ \E query \in Commands : CallAsk(query)
    \/ CallRead
    \/ AskRead
    \/ SerialReadStep
    \/ SerialReadReturn

Spec == Init /\ [][Next]_vars

(***************************************************************************)
(* Specification of the callers that close their handle, with serial ports *)
(* whose read may raise and devices whose replies may exceed one receive   *)
(***************************************************************************)
\* the command these callers send
CloseCommands == {<<"A">>}

InitClose ==
    /\ pc = "start"
    /\ handle = NoHandle
    /\ opened = {}
    /\ call = NoCall
    /\ trace = <<>>
    /\ calls = <<>>
    /\ ret = <<>>
    /\ error = NoError
    /\ message = <<>>
    /\ emptyReads = 0
    /\ pending0 = 0
    /\ rx = <<>>
    /\ stub \in {"echo", "long"}
    /\ released = 0
    /\ fault = ""
    /\ timeout = 0
    /\ code = ""
    /\ NoThreads
    /\ NoDriver
    /\ NoMini8
    /\ NoRelais

NextClose ==
    \/ \E inst \in Addresses, tmo \in Timeouts, openOk \in BOOLEAN, cfgOk \in BOOLEAN :
          Instrument(inst, tmo, openOk, cfgOk)
    \/ \E query \in CloseCommands : CallWrite(query)
    \/ \E query \in CloseCommands : CallAsk(query)
    \/ CallRead
    \/ AskRead
    \/ SerialReadStep
    \/ SerialReadRaise
    \/ SerialReadReturn
    \/ Close
    \/ InstrumentAgain

SpecClose == InitClose /\ [][NextClose]_vars

(***************************************************************************)
(* Specification of get_gpib_timeout alone                                 *)
(***************************************************************************)
\* the requested timeouts: around every threshold of the table, the
\* documented example of 120 microseconds, and beyond the table
TimeoutInputs ==
    UNION {{gpib_timeout_list[i][1] - 1, gpib_timeout_list[i][1],
            gpib_timeout_list[i][1] + 1, 2 * gpib_timeout_list[i][1]} :
              i \in 1..Len(gpib_timeout_list)}
    \cup {5, 20, 120, 200, 500}

InitTimeout ==
    /\ pc = "timeout"
    /\ handle = NoHandle
    /\ opened = {}
    /\ call = NoCall
    /\ trace = <<>>
    /\ calls = <<>>
    /\ ret = <<>>
    /\ error = NoError
    /\ message = <<>>
    /\ emptyReads = 0
    /\ pending0 = 0
    /\ rx = <<>>
    /\ stub = "echo"
    /\ released = 0
    /\ fault = ""
    /\ timeout \in TimeoutInputs
    /\ code = ""
    /\ NoThreads
    /\ NoDriver
    /\ NoMini8
    /\ NoRelais

\* the caller calls get_gpib_timeout(timeout)
GetGpibTimeout ==
    /\ pc = "timeout"
    /\ code = ""
    /\ code' = get_gpib_timeout(timeout)
    /\ UNCHANGED <<tmoOff, timeout>>

NextTimeout == GetGpibTimeout

SpecTimeout == InitTimeout /\ [][NextTimeout]_vars

(***************************************************************************)
(* Specification of two threads calling ask() on one handle                *)
(***************************************************************************)
\* the handles the factory returns for well-formed addresses
SharedHandles ==
    {instrument(inst, DefaultTimeout, TRUE, TRUE).handle :
        inst \in {S_GPIB \o <<":", ":", "2", "4">>,
                  S_ETHER \o <<":", ":", "h", ":", "2", "4">>,
                  S_SERIAL \o <<":", ":", "h">>}}

InitThreads ==
    /\ pc = "threads"
    /\ handle \in SharedHandles
    /\ opened = {handle.res}
    /\ call = NoCall
    /\ trace = <<>>
    /\ calls = <<>>
    /\ ret = <<>>
    /\ error = NoError
    /\ message = <<>>
    /\ emptyReads = 0
    /\ pending0 = 0
    /\ rx = <<>>
    /\ stub = "echo"
    /\ released = 0
    /\ fault = ""
    /\ timeout = 0
    /\ code = ""
    /\ NoThreads
    /\ NoDriver
    /\ NoMini8
    /\ NoRelais

NextThreads ==
    \/ \E t \in Threads, query \in ThreadCommands : ThreadAskWrite(t, query)
    \/ \E t \in Threads : ThreadAskRead(t)
    \/ \E t \in Threads : ThreadSerialStep(t)
    \/ \E t \in Threads : ThreadSerialReturn(t)

SpecThreads == InitThreads /\ [][NextThreads]_vars

(***************************************************************************)
(* Specification of the drivers                                            *)
(***************************************************************************)
InitDrivers ==
    /\ pc = "drivers"
    /\ handle \in {h \in SharedHandles : h.kind = "GPIB"}
    /\ opened = {handle.res}
    /\ call = NoCall
    /\ trace = <<>>
    /\ calls = <<>>
    /\ ret = <<>>
    /\ error = NoError
    /\ message = <<>>
    /\ emptyReads = 0
    /\ pending0 = 0
    /\ rx = <<>>
    /\ stub = "echo"
    /\ released = 0
    /\ fault = ""
    /\ timeout = 0
    /\ code = ""
    /\ NoThreads
    /\ dcall = NoDriverCall
    /\ dpc = "idle"
    /\ todo = <<>>
    /\ bus = <<>>
    /\ derror = ""
    /\ lcr_high_power_mode = FALSE
    /\ hpow \in {"0", "1"}
    /\ NoMini8
    /\ NoRelais

NextDrivers ==
    \/ \E c \in DriverCalls : DriverCall(c)
    \/ DriverStep
    \/ DriverRaise
    \/ DriverReturn

SpecDrivers == InitDrivers /\ [][NextDrivers]_vars

(***************************************************************************)
(* Specification of the EurothermMini8                                     *)
(***************************************************************************)
InitMini8 ==
    /\ pc = "mini8"
    /\ handle = NoHandle
    /\ opened = {}
    /\ call = NoCall
    /\ trace = <<>>
    /\ calls = <<>>
    /\ ret = <<>>
    /\ error = NoError
    /\ message = <<>>
    /\ emptyReads = 0
    /\ pending0 = 0
    /\ rx = <<>>
    /\ stub = "echo"
    /\ released = 0
    /\ fault = ""
    /\ timeout = 0
    /\ code = ""
    /\ NoThreads
    /\ NoDriver
    /\ NoMini8
    /\ NoRelais

NextMini8 ==
    \/ \E t \in M8Threads, method \in M8Methods, loop \in M8Loops,
          inRange \in BOOLEAN : M8Call(t, method, loop, inRange)
    \/ \E t \in M8Threads, allowed \in BOOLEAN : M8Check(t, allowed)
    \/ \E t \in M8Threads : M8Acquire(t)
    \/ \E t \in M8Threads : M8FileRaise(t)
    \/ \E t \in M8Threads : M8Begin(t)
    \/ \E t \in M8Threads, ok \in BOOLEAN, regs \in SteadyContents :
          M8End(t, ok, regs)
    \/ \E t \in M8Threads, ok \in BOOLEAN : M8Log(t, ok)
    \/ \E t \in M8Threads : M8Release(t)
    \/ \E t \in M8Threads : M8Store(t)

SpecMini8 == InitMini8 /\ [][NextMini8]_vars

(***************************************************************************)
(* Specification of a Loop of the Mini8 under the clock                    *)
(***************************************************************************)
\* the Loop whose getters the threads call
Refreshed == {l \in M8Loops : base_number(l) = 0}

\* the getters of one Loop, with time passing and the registers changing;
\* the refresh of its construction may have failed
InitLoop ==
    /\ pc = "mini8"
    /\ handle = NoHandle
    /\ opened = {}
    /\ call = NoCall
    /\ trace = <<>>
    /\ calls = <<>>
    /\ ret = <<>>
    /\ error = NoError
    /\ message = <<>>
    /\ emptyReads = 0
    /\ pending0 = 0
    /\ rx = <<>>
    /\ stub = "echo"
    /\ released = 0
    /\ fault = ""
    /\ timeout = 0
    /\ code = ""
    /\ NoThreads
    /\ NoDriver
    /\ lock = 0
    /\ m8 = [t \in M8Threads |-> M8Idle]
    /\ modbus = NoTransaction
    /\ now = 0
    /\ \E cache \in {ZeroCache, Cached(Steady, 12)} :
          loops = [l \in M8Loops |->
                     IF l \in Refreshed THEN NewLoop(cache)
                     ELSE NewLoop(Cached(Steady, 12))]
    /\ NoRelais

NextLoop ==
    \/ \E t \in M8Threads, loop \in Refreshed : M8Call(t, "get", loop, TRUE)
    \/ \E t \in M8Threads : M8Check(t, allowed_to_get_new_data(m8[t].loop))
    \/ \E t \in M8Threads : M8Acquire(t)
    \/ \E t \in M8Threads : M8Begin(t)
    \/ \E t \in M8Threads, ok \in BOOLEAN, regs \in RegisterContents :
          M8End(t, ok, regs)
    \/ \E t \in M8Threads, ok \in BOOLEAN : M8Log(t, ok)
    \/ \E t \in M8Threads : M8Release(t)
    \/ \E t \in M8Threads : M8Store(t)
    \/ Tick

SpecLoop == InitLoop /\ [][NextLoop]_vars

(***************************************************************************)
(* Specification of the RelaisCard                                         *)
(***************************************************************************)
InitRelais ==
    /\ pc = "relais"
    /\ handle = NoHandle
    /\ opened = {}
    /\ call = NoCall
    /\ trace = <<>>
    /\ calls = <<>>
    /\ ret = <<>>
    /\ error = NoError
    /\ message = <<>>
    /\ emptyReads = 0
    /\ pending0 = 0
    /\ rx = <<>>
    /\ stub = "echo"
    /\ released = 0
    /\ fault = ""
    /\ timeout = 0
    /\ code = ""
    /\ NoThreads
    /\ NoDriver
    /\ NoMini8
    /\ NoRelais

NextRelais ==
    \/ \E h \in Handles \cup {LibError} : Connect(h)
    \/ Disconnect
    \/ \E h \in Handles \cup {LibError} : CheckConnection(h)
    \/ \E channel \in {0, 1}, byte \in {0, 255}, res \in {0, LibError} :
          SetDigitalByte(channel, byte, res)
    \/ \E channel \in {0, 1}, value \in {0, 255} :
          GetDigitalByte(channel, value)

SpecRelais == InitRelais /\ [][NextRelais]_vars

(***************************************************************************)
(* Properties                                                              *)
(***************************************************************************)
\* the bytes the port handed to the serial read(), in order
RECURSIVE PortBytes(_)
PortBytes(cs) ==
    IF cs = <<>> THEN <<>>
    ELSE IF Head(cs).f = "read" THEN Head(cs).data \o PortBytes(Tail(cs))
    ELSE PortBytes(Tail(cs))

\* C1: every write(command), called directly or by ask, hands the transport
\* exactly one send, and its payload is the command followed by the
\* termination sequence of the variant and nothing else: LF for GPIB and
\* Ethernet, CR for serial.
C1_WriteSendsCommandAndTerminator ==
    (call.op \in {"write", "ask"}) =>
        /\ Cardinality({i \in DOMAIN calls :
                          calls[i].f \in {"gpib.write", "sendall", "write"}}) = 1
        /\ calls[1].f = (CASE handle.kind = "GPIB" -> "gpib.write"
                           [] handle.kind = "ETHER" -> "sendall"
                           [] handle.kind = "SERIAL" -> "write")
        /\ calls[1].data =
             call.arg \o (IF handle.kind = "SERIAL" THEN <<CR>> ELSE <<LF>>)
        /\ (call.op = "write" => Len(calls) = 1)

\* write("AA") on a serial handle has transmitted "AA\r"
C1_Witness ==
    /\ call = [op |-> "write", arg |-> <<"A", "A">>]
    /\ handle.kind = "SERIAL"
    /\ pc = "idle"
    /\ error = NoError
    /\ calls = <<[f |-> "write", data |-> <<"A", "A", CR>>]>>

\* C2: ask(command) runs write(command) and then read() on the handle, once
\* each and in that order: the send is the first transport call and only
\* receives follow it, no receive is issued before write() has returned, and
\* the value ask returns is the value its read() returned.
C2_AskIsWriteThenRead ==
    (call.op = "ask") =>
        /\ Len(trace) \in {1, 2}
        /\ trace[1].m = "write" /\ trace[1].arg = call.arg
        /\ Len(trace) = 2 => trace[2].m = "read"
        /\ calls # <<>>
        /\ calls[1].f \in {"gpib.write", "sendall", "write"}
        /\ \A i \in 2..Len(calls) : calls[i].f \in {"gpib.read", "recv", "read"}
        /\ Len(trace) = 1 => Len(calls) = 1
        /\ pc = "ask_read" => (Len(trace) = 1 /\ error = NoError)
        /\ (pc = "idle" /\ error = NoError) =>
              /\ Len(trace) = 2
              /\ Len(ret) = 1
              /\ ret = trace[2].val

\* an ask("A") on an Ethernet handle has returned what its read returned
C2_Witness ==
    /\ call = [op |-> "ask", arg |-> <<"A">>]
    /\ handle.kind = "ETHER"
    /\ pc = "idle"
    /\ error = NoError
    /\ Len(trace) = 2
    /\ Len(calls) = 2
    /\ ret = <<<<"A">>>>

\* C3 (as stated): on the echoing stub, with no unread bytes pending, ask(X)
\* returns exactly X, for every X over the alphabet (short enough for its
\* reply to fit one receive) and each variant.
C3_AskEchoReturnsCommand ==
    (stub = "echo" /\ call.op = "ask" /\ pc = "idle" /\ error = NoError
       /\ pending0 = 0
       /\ (handle.kind = "SERIAL" \/ Len(call.arg) < RecvLimit)) =>
        ret = <<call.arg>>

\* C3 (amended): on the echoing stub, with no unread bytes pending, ask(X)
\* returns X without its trailing whitespace on GPIB and Ethernet (X shorter
\* than the 512 bytes of one receive), and on
\* serial the part of X before its first CR without its trailing whitespace;
\* so it returns exactly X when X does not end in whitespace and, on serial,
\* holds no CR.
C3_AskEchoReturnsStrippedCommand ==
    (stub = "echo" /\ call.op = "ask" /\ pc = "idle" /\ error = NoError
       /\ pending0 = 0
       /\ (handle.kind = "SERIAL" \/ Len(call.arg) < RecvLimit)) =>
        LET X == call.arg
            crs == {i \in 1..Len(X) : X[i] = CR}
            first == CHOOSE i \in crs : \A j \in crs : i <= j
            base == IF handle.kind = "SERIAL" /\ crs # {}
                    THEN SubSeq(X, 1, first - 1)
                    ELSE X
        IN  /\ Len(ret) = 1
            /\ Len(ret[1]) <= Len(base)
            /\ ret[1] = SubSeq(base, 1, Len(ret[1]))
            /\ ret[1] # <<>> => ret[1][Len(ret[1])] \notin Whitespace
            /\ \A i \in (Len(ret[1]) + 1)..Len(base) : base[i] \in Whitespace
            /\ (base = X /\ (X = <<>> \/ X[Len(X)] \notin Whitespace)) => ret[1] = X

\* ask("A\n") on a GPIB handle bound to the echoing stub has returned "A"
C3_Witness ==
    /\ stub = "echo"
    /\ call = [op |-> "ask", arg |-> <<"A", LF>>]
    /\ handle.kind = "GPIB"
    /\ pc = "idle"
    /\ error = NoError
    /\ pending0 = 0
    /\ ret = <<<<"A">>>>

\* C4: the thresholds of the timeout table increase strictly; for every
\* requested timeout t in [0, 1000 s] get_gpib_timeout returns the code of the
\* smallest threshold that is >= t (the no-timeout code for 0, a threshold's
\* own code for t equal to it), and for every t > 1000 s the 1000-second code.
C4_SmallestThresholdAtLeast ==
    /\ \A i \in 1..(Len(gpib_timeout_list) - 1) :
          gpib_timeout_list[i][1] < gpib_timeout_list[i + 1][1]
    /\ (code # "") =>
        /\ (timeout >= 0 /\ timeout <= 1000000000) =>
              \E i \in DOMAIN gpib_timeout_list :
                  /\ code = gpib_timeout_list[i][2]
                  /\ gpib_timeout_list[i][1] >= timeout
                  /\ \A j \in DOMAIN gpib_timeout_list :
                        gpib_timeout_list[j][1] >= timeout =>
                            gpib_timeout_list[i][1] <= gpib_timeout_list[j][1]
        /\ timeout = 0 => code = "TNONE"
        /\ (\E i \in DOMAIN gpib_timeout_list : timeout = gpib_timeout_list[i][1]) =>
              \E i \in DOMAIN gpib_timeout_list :
                  timeout = gpib_timeout_list[i][1] /\ code = gpib_timeout_list[i][2]
        /\ timeout > 1000000000 => code = "T1000s"

\* a request of 100 ms, equal to a threshold, has been mapped to its code
C4_Witness == timeout = 100000 /\ code = "T100ms"

\* C5: get_gpib_timeout returns the table entry nearest to the request: the
\* documented request of 120 microseconds gets the code of the threshold at
\* the least distance from it, the 100-microsecond code.
C5_NearestEntry ==
    (code # "" /\ timeout = 120) =>
        /\ code = "T100us"
        /\ \E i \in DOMAIN gpib_timeout_list :
              /\ code = gpib_timeout_list[i][2]
              /\ \A j \in DOMAIN gpib_timeout_list :
                    Max(gpib_timeout_list[i][1] - timeout, timeout - gpib_timeout_list[i][1])
                      <= Max(gpib_timeout_list[j][1] - timeout,
                             timeout - gpib_timeout_list[j][1])

\* C6: for every address without the "::" separator the factory raises the
\* malformed-address error (RuntimeError), returns no handle and opens no
\* GPIB device, socket or serial port.
C6_NoSeparatorIsMalformed ==
    (call.op = "instrument"
       /\ ~\E i \in 1..(Len(call.arg) - 1) : call.arg[i] = ":" /\ call.arg[i + 1] = ":") =>
        /\ pc = "raised"
        /\ error.type = "RuntimeError"
        /\ error.why = "is not a legal instrument"
        /\ handle = NoHandle
        /\ opened = {}

\* instrument("GPIB:24") has raised the malformed-address error
C6_Witness ==
    /\ call = [op |-> "instrument", arg |-> <<"G", "P", "I", "B", ":", "2", "4">>]
    /\ pc = "raised"
    /\ error.type = "RuntimeError"
    /\ opened = {}

\* C7: for every address "<TYPE>::<ADDRESS>" (one "::", none in the address)
\* whose type token is not exactly GPIB, GPIB0, ETHER or SERIAL, in this
\* case of letters, the factory raises the unsupported-transport error
\* (ValueError "type not found"), which is another kind than the
\* malformed-address error, and opens no transport resource.
C7_UnknownTypeIsUnsupported ==
    LET inst == call.arg
        seps == {i \in 1..(Len(inst) - 1) : inst[i] = ":" /\ inst[i + 1] = ":"}
        first == CHOOSE i \in seps : \A j \in seps : i <= j
        token == SubSeq(inst, 1, first - 1)
        rest == SubSeq(inst, first + 2, Len(inst))
    IN  (call.op = "instrument"
           /\ seps # {}
           /\ (~\E i \in 1..(Len(rest) - 1) : rest[i] = ":" /\ rest[i + 1] = ":")
           /\ token \notin {<<"G", "P", "I", "B">>, <<"G", "P", "I", "B", "0">>,
                            <<"E", "T", "H", "E", "R">>,
                            <<"S", "E", "R", "I", "A", "L">>}) =>
            /\ pc = "raised"
            /\ error.type = "ValueError"
            /\ error.why = "type not found"
            /\ error.type # "RuntimeError"
            /\ handle = NoHandle
            /\ opened = {}

\* instrument("gpib::24") has raised the unsupported-transport error
C7_Witness ==
    /\ call = [op |-> "instrument",
               arg |-> <<"g", "p", "i", "b", ":", ":", "2", "4">>]
    /\ pc = "raised"
    /\ error = [type |-> "ValueError", why |-> "type not found"]
    /\ opened = {}

\* C8 (as stated): both "ETHER::h:24" and "ETHER::h::24" construct an
\* Ethernet handle connected to (h, 24), unless the connect itself fails.
C8_EitherPortDelimiter ==
    \A d \in {<<":">>, <<":", ":">>} :
        (call.op = "instrument"
           /\ call.arg = <<"E", "T", "H", "E", "R", ":", ":", "h">> \o d \o <<"2", "4">>) =>
            \/ /\ pc = "idle"
               /\ handle.kind = "ETHER"
               /\ handle.res.type = "socket"
               /\ handle.res.state = "connected"
               /\ handle.res.name = <<"h">>
               /\ handle.res.num = 24
               /\ opened = {handle.res}
            \/ /\ pc = "raised"
               /\ error.type = "socket.error"

\* C8 (amended): the factory accepts an Ethernet address whose port is
\* delimited from the host by ":" only.  "ETHER::h:24" constructs an Ethernet
\* handle connected to (h, 24), unless the connect itself fails;
\* "ETHER::h::24" raises the malformed-address error, and no handle is
\* returned and no socket opened.
C8_ColonPortDelimiterOnly ==
    /\ (call.op = "instrument"
          /\ call.arg = <<"E", "T", "H", "E", "R", ":", ":", "h", ":", "2", "4">>) =>
            \/ /\ pc = "idle"
               /\ error = NoError
               /\ handle.kind = "ETHER"
               /\ handle.res.type = "socket"
               /\ handle.res.state = "connected"
               /\ handle.res.name = <<"h">>
               /\ handle.res.num = 24
               /\ opened = {handle.res}
            \/ /\ pc = "raised"
               /\ error.type = "socket.error"
               /\ handle = NoHandle
    /\ (call.op = "instrument"
          /\ call.arg = <<"E", "T", "H", "E", "R", ":", ":", "h", ":", ":", "2", "4">>) =>
            /\ pc = "raised"
            /\ error.type = "RuntimeError"
            /\ handle = NoHandle
            /\ opened = {}

\* instrument("ETHER::h:24") has returned a handle connected to (h, 24)
C8_Witness ==
    /\ call = [op |-> "instrument",
               arg |-> <<"E", "T", "H", "E", "R", ":", ":", "h", ":", "2", "4">>]
    /\ pc = "idle"
    /\ handle.kind = "ETHER"
    /\ handle.res.name = <<"h">>
    /\ handle.res.num = 24

\* C9 (as stated): SerialInstrument.read takes at most one byte per port
\* read, stops at the first CR received and reads nothing after it, and
\* returns the bytes received before that CR unchanged.
C9_SerialReadRemovesOnlyTerminator ==
    LET bytes == PortBytes(calls) IN
    (handle.kind = "SERIAL" /\ call.op \in {"read", "ask"}
       /\ trace # <<>> /\ trace[Len(trace)].m = "read") =>
        /\ \A i \in DOMAIN calls : calls[i].f = "read" => Len(calls[i].data) <= 1
        /\ \A i \in 1..(Len(bytes) - 1) : bytes[i] # CR
        /\ \A i \in 1..(Len(calls) - 1) : calls[i].f = "read" => calls[i].data # <<CR>>
        /\ (pc = "idle" /\ error = NoError) =>
              /\ bytes # <<>>
              /\ bytes[Len(bytes)] = CR
              /\ ret = <<SubSeq(bytes, 1, Len(bytes) - 1)>>

\* C9 (amended): SerialInstrument.read takes at most one byte per port read,
\* stops at the first CR received and reads nothing after it, and returns the
\* bytes received before that CR with their trailing whitespace removed (the
\* terminator and every whitespace byte directly before it).
C9_SerialReadStripsTrailingWhitespace ==
    LET bytes == PortBytes(calls)
        body == SubSeq(bytes, 1, Len(bytes) - 1)
    IN
    (handle.kind = "SERIAL" /\ call.op \in {"read", "ask"}
       /\ trace # <<>> /\ trace[Len(trace)].m = "read") =>
        /\ \A i \in DOMAIN calls : calls[i].f = "read" => Len(calls[i].data) <= 1
        /\ \A i \in 1..(Len(bytes) - 1) : bytes[i] # CR
        /\ \A i \in 1..(Len(calls) - 1) : calls[i].f = "read" => calls[i].data # <<CR>>
        /\ (pc = "idle" /\ error = NoError) =>
              /\ bytes # <<>>
              /\ bytes[Len(bytes)] = CR
              /\ Len(ret) = 1
              /\ Len(ret[1]) <= Len(body)
              /\ ret[1] = SubSeq(body, 1, Len(ret[1]))
              /\ ret[1] # <<>> => ret[1][Len(ret[1])] \notin Whitespace
              /\ \A i \in (Len(ret[1]) + 1)..Len(body) : body[i] \in Whitespace
              /\ (body = <<>> \/ body[Len(body)] \notin Whitespace) => ret[1] = body

\* a serial read() has returned "A" from the reply "A\r", and a byte that
\* followed the terminator is still unread
C9_Witness ==
    /\ handle.kind = "SERIAL"
    /\ call.op = "read"
    /\ pc = "idle"
    /\ error = NoError
    /\ PortBytes(calls) = <<"A", CR>>
    /\ ret = <<<<"A">>>>
    /\ rx # <<>>

\* C10: with the read timeout the factory configures on the port, a serial
\* read() from a device that does not send the terminator is bounded by that
\* timeout: when a port read times out, read() returns what it has, so no
\* read() sees a second port read time out.
C10_SerialReadBoundedByTimeout ==
    (handle.kind = "SERIAL" /\ handle.res.timeout > 0) => emptyReads <= 1

\* C11: each read() on a GPIB or Ethernet handle, called directly or by ask,
\* issues exactly one receive of at most 512 bytes and no second one; the
\* value it returns has at most 512 bytes and is taken from the bytes of that
\* one receive; what the device sent beyond the first 512 bytes is not part
\* of the value and stays unread.
C11_OneReceiveOfAtMost512 ==
    (/\ handle.kind \in {"GPIB", "ETHER"}
     /\ call.op \in {"read", "ask"}
     /\ pc = "idle"
     /\ Len(trace) = (IF call.op = "ask" THEN 2 ELSE 1)) =>
        LET last == calls[Len(calls)] IN
        /\ Cardinality({i \in DOMAIN calls :
                          calls[i].f \in {"gpib.read", "recv"}}) = 1
        /\ last.f = (IF handle.kind = "GPIB" THEN "gpib.read" ELSE "recv")
        /\ Len(last.data) <= 512
        /\ ret # <<>> =>
              /\ Len(ret[1]) <= 512
              /\ ret[1] = SubSeq(last.data, 1, Len(ret[1]))
        /\ call.op = "read" =>
              /\ Len(last.data) = (IF pending0 <= 512 THEN pending0 ELSE 512)
              /\ Len(rx) = pending0 - Len(last.data)

\* an ask on an Ethernet handle whose reply had 514 bytes has returned the
\* first 512 of them and left the other two unread
C11_Witness ==
    /\ handle.kind = "ETHER"
    /\ call.op = "ask"
    /\ pc = "idle"
    /\ Len(calls) = 2
    /\ Len(calls[2].data) = 512
    /\ Len(ret[1]) = 512
    /\ rx = <<"B", LF>>

\* C12: over any sequence of write/read/ask/close calls on a handle the
\* library's release is invoked at most once for it: not before the first
\* close(), which invokes it, and not again by a later close().
C12_ReleasedExactlyOnce ==
    (pc = "idle") =>
        /\ released <= 1
        /\ (released = 0) = (handle.res.state # "closed")
        /\ (released = 0) => opened = {handle.res}

\* C13: a second close() on a closed handle does not raise, on any of the
\* three variants.
C13_SecondCloseDoesNotRaise ==
    (call.op = "close" /\ released >= 2) => error = NoError

\* C14: once close() has returned, no later write, read or ask on the handle
\* completes without an exception, also when the descriptor number has been
\* handed out again to another open resource.
C14_NoUseAfterClose ==
    (/\ handle.res.state = "closed"
     /\ call.op \in {"write", "read", "ask"}
     /\ pc = "idle") => error # NoError

\* C15: when a library call made by write(), by read() or by the factory
\* raises, the call in progress ends there with the exception of the library:
\* it returns nothing, the failed library call is the last one it makes (no
\* second attempt), a failed factory returns no handle, and an ask() whose
\* send failed issues no read.
C15_TransportFailureReachesCaller ==
    (fault # "") =>
        /\ pc \in {"idle", "raised"}
        /\ ret = <<>>
        /\ error.type \in {"gpib.GpibError", "socket.error", "serial.SerialException"}
        /\ call.op = "instrument" =>
              /\ pc = "raised"
              /\ handle = NoHandle
              /\ fault \in {"gpib.dev", "gpib.timeout", "connect", "serial.Serial"}
        /\ call.op \in {"write", "read", "ask"} =>
              /\ calls # <<>>
              /\ calls[Len(calls)].f = fault
              /\ fault \in {"gpib.write", "sendall", "write"} =>
                    /\ Len(calls) = 1
                    /\ Len(trace) = 1
                    /\ trace[1].m = "write"
              /\ fault \in {"gpib.read", "recv"} =>
                    Cardinality({i \in DOMAIN calls : calls[i].f = fault}) = 1

\* an ask("A") on an Ethernet handle whose sendall raised has ended with
\* socket.error after its write, without a read
C15_Witness ==
    /\ call = [op |-> "ask", arg |-> <<"A">>]
    /\ handle.kind = "ETHER"
    /\ fault = "sendall"
    /\ pc = "idle"
    /\ error.type = "socket.error"
    /\ Len(trace) = 1
    /\ Len(calls) = 1

\* the bytes the receives of a log returned, in order
RECURSIVE Received(_)
Received(w) ==
    IF w = <<>> THEN <<>>
    ELSE IF Head(w).f \in {"gpib.read", "recv", "read"}
    THEN Head(w).data \o Received(Tail(w))
    ELSE Received(Tail(w))

\* the replies of the echoing device to the sends of a log, in order
RECURSIVE Replied(_, _)
Replied(w, term) ==
    IF w = <<>> THEN <<>>
    ELSE IF Head(w).f \in {"gpib.write", "sendall", "write"}
    THEN SubSeq(Head(w).data, 1, Len(Head(w).data) - Len(term)) \o term
         \o Replied(Tail(w), term)
    ELSE Replied(Tail(w), term)

\* C16: ask() is not protected by a lock: while one thread is between the
\* write and the read of its ask(), another thread's ask() can perform its
\* write; and replies are handed to whichever thread receives next, in the
\* order the device produced them, never routed to the thread that asked
\* (the bytes received so far, by all threads together, are the beginning of
\* the replies to all writes in the order of the writes).
C16_NoLockAroundAsk ==
    (pc = "threads") =>
        /\ \A t \in Threads, u \in Threads, q \in {<<"A">>, <<"B">>} :
              (/\ t # u
               /\ threads[t].pc = "ask_read"
               /\ threads[u].pc = "idle"
               /\ threads[u].asks < MaxAsks) => ENABLED ThreadAskWrite(u, q)
        /\ Received(wire) \o rx =
              Replied(wire, IF handle.kind = "SERIAL" THEN <<CR>> ELSE <<LF>>)

\* serial handle: thread 1 wrote "A", thread 2 wrote "B", then thread 2's
\* read returned "A" and thread 1's read returned "B"
C16_Witness ==
    /\ pc = "threads"
    /\ handle.kind = "SERIAL"
    /\ Len(wire) = 6
    /\ wire[1] = [t |-> 1, f |-> "write", data |-> <<"A", CR>>]
    /\ wire[2] = [t |-> 2, f |-> "write", data |-> <<"B", CR>>]
    /\ \A i \in 3..6 : wire[i].f = "read"
    /\ threads[2].pc = "idle" /\ threads[2].ret = <<<<"A">>>>
    /\ threads[1].pc = "idle" /\ threads[1].ret = <<<<"B">>>>

C18_ReferenceModeSendsFMOD ==
    (/\ pc = "drivers"
     /\ dcall.obj = "SR830m"
     /\ dcall.method = "set_input_reference_mode"
     /\ dpc = "idle") =>
        bus = (IF dcall.arg \in {0, 1}
               THEN <<[m |-> "write", cmd |-> "FMOD", val |-> dcall.arg]>>
               ELSE <<>>)

\* C19: the VOLT command the setter of LCR.source_voltage sends carries the
\* requested voltage limited to at least 5 mV and to at most 2 V while the
\* instrument answers OUTP:HPOW? with 0, at most 20 V in high power mode.
C19_SourceVoltageLimitedByMode ==
    (pc = "drivers" /\ dcall.obj = "LCR" /\ dcall.method = "source_voltage=") =>
        \A i \in DOMAIN bus :
            bus[i].cmd = "VOLT" =>
                LET top == IF hpow = "0" THEN 2000 ELSE 20000
                    low == IF dcall.arg < 5 THEN 5 ELSE dcall.arg
                IN  /\ hpow = "0" => bus[i].val <= 2000
                    /\ bus[i].val = (IF low > top THEN top ELSE low)

\* C20: at most one thread at a time is inside a register transaction of the
\* Mini8, and that thread holds the shared lock; a thread holds the lock
\* from before the first read of a Loop refresh until after the second, and
\* when it comes to the second read (register base+70) the transaction
\* started last on the instrument is its own read of 5 registers at base+1.
C20_OneThreadInsideModbus ==
    (pc = "mini8") =>
        LET inside == {t \in {1, 2} :
                         m8[t].pc \in {"in_read1", "in_read2", "in_write", "in_read"}}
        IN  /\ Cardinality(inside) <= 1
            /\ \A t \in inside : lock = t /\ modbus.t = t
            /\ \A t \in {1, 2} :
                  /\ m8[t].pc \in {"read1", "in_read1", "read2", "in_read2"} =>
                        lock = t
                  /\ m8[t].pc = "read2" =>
                        modbus = [t |-> t, fn |-> "read_registers",
                                  reg |-> 256 * m8[t].loop + 1, n |-> 5]
                  /\ m8[t].pc = "in_read2" =>
                        modbus = [t |-> t, fn |-> "read_register",
                                  reg |-> 256 * m8[t].loop + 70, n |-> 1]

\* thread 1 is inside the second read of a refresh of loop 1 while thread 2
\* waits for the lock in a setter of loop 0
C20_Witness ==
    /\ pc = "mini8"
    /\ m8[1].pc = "in_read2" /\ m8[1].loop = 1
    /\ m8[2].pc = "acquire" /\ m8[2].method = "set_target_set_point"
    /\ m8[2].loop = 0
    /\ lock = 1
    /\ modbus.reg = 326

\* C24: whenever the factory instrument() raises, no transport resource
\* that the call opened (GPIB descriptor, socket, serial port) remains open.
C24_FactoryFailureLeavesNothingOpen ==
    (pc = "raised") => opened = {}

\* C21: whenever an operation of the Mini8 or of a Loop has ended, by
\* returning or by raising, the shared lock is released: with no operation
\* in progress the lock is free.
C21_LockFreeWhenNoOperation ==
    (pc = "mini8" /\ \A t \in {1, 2} : m8[t].pc = "idle") => lock = 0

\* C22: a getter of a Loop whose refresh met a register read that raised
\* does not raise.
C22_GetterDoesNotRaise ==
    (pc = "mini8") =>
        \A t \in {1, 2} :
            (m8[t].method = "get" /\ m8[t].failed) => ~m8[t].raised

\* The rest of C22: the cache of a Loop changes only when a refresh that
\* read both registers stores what it read, and a getter whose refresh
\* failed returns, unless it raises, the values cached when it returns.
FailedRefreshKeepsCache ==
    [][(pc = "mini8") =>
         /\ \A l \in {0, 1} :
               loops'[l].cache # loops[l].cache =>
                  \E t \in {1, 2} :
                     /\ m8[t].pc = "store" /\ m8[t].loop = l
                     /\ ~m8[t].failed /\ Len(m8[t].data) = 5
                     /\ m8'[t].pc = "idle"
         /\ \A t \in {1, 2} :
               (m8[t].method = "get" /\ m8[t].failed /\ m8'[t] # m8[t]) =>
                  /\ loops' = loops
                  /\ m8'[t].pc = "idle" =>
                        m8'[t].value = IF m8[t].raised THEN <<>>
                                       ELSE <<loops[m8[t].loop].cache>>]_vars

\* C23: a refresh of a Loop starts more than 0.5 s after the start of the
\* refresh of that Loop before it, whichever threads call the getters.
C23_RefreshesMoreThanWindowApart ==
    (pc = "mini8") =>
        \A t \in {1, 2} :
            (m8[t].method = "get" /\
             m8[t].pc \in {"read1", "in_read1", "read2", "in_read2"}) =>
                m8[t].gap > 500000

\* C25: set_digital_byte on a card that was never connected, or was
\* disconnected since its last connect, raises "Device not connected" and
\* calls nothing in the USB library; on a connected card it calls the
\* library's write once with the handle of the card, and raises exactly
\* when the write returns -1.
C25_SetDigitalByteChecksConnection ==
    (pc = "relais" /\ rcall.method = "set_digital_byte") =>
        /\ link \in {"never", "disconnected"} =>
              rcall.error = "Device not connected" /\ usb = <<>>
        /\ link = "connected" =>
              /\ Len(usb) = 1
              /\ usb[1].f = "dcihid_write"
              /\ usb[1].handle = card_handle
              /\ card_handle \in hid
              /\ (usb[1].ret = 0 - 1) <=> (rcall.error # "")
              /\ rcall.error # "Device not connected"

\* a card disconnected after a successful connect refused a byte without a
\* library call
C25_Witness ==
    /\ pc = "relais"
    /\ rcall.method = "set_digital_byte"
    /\ rcall.arg = <<1, 255>>
    /\ link = "disconnected"
    /\ rcall.error = "Device not connected"
    /\ usb = <<>>
    /\ hid = {}

\* C26: after connect() returned False the card is not connected: a
\* set_digital_byte raises "Device not connected"; and the library's close
\* is only ever called on a handle that a successful open returned.
C26_FailedConnectLeavesCardNotConnected ==
    (pc = "relais") =>
        /\ (link = "failed" /\ rcall.method = "set_digital_byte") =>
              rcall.error = "Device not connected" /\ usb = <<>>
        /\ \A i \in 1..Len(usb) :
              usb[i].f = "dcihid_close" => usb[i].handle \in {5, 6}

====
